---- MODULE Spec2Model ----
(***************************************************************************)
(* A model of FileHeaders.py: one run of the script from the directory     *)
(* scan to the end of apply_footers_and_headers, and the user running it   *)
(* again on the files it left behind.                                      *)
(*                                                                         *)
(* A Python string is a sequence of symbols.  A symbol is one character    *)
(* (" ", "\n", "b", ...), one of the markers and tags of lines 9-15, which *)
(* the script only ever finds and replaces as a whole, or one unit of a    *)
(* file name ("a", ".t").  '' is the empty sequence.                       *)
(***************************************************************************)
EXTENDS Integers, Sequences, FiniteSets, TLC

VARIABLES
    args,               \* argparse namespace (line 89)
    fs,                 \* file system: path relative to the cwd -> content
    denied,             \* files the user may not open for 'r+'
    files, paths,       \* module-level lists (lines 100-101, 127-130)
    header, footer,     \* module-level strings (lines 98-99)
    has_header_footer,  \* line 102
    yn,                 \* last answer read by input()
    pc,                 \* position of the script
    idx,                \* position of the for loop of line 41 in paths
    file_path,          \* loop variable of line 41
    current_file,       \* local of apply_footers_and_headers: handle or None
    openHandles,        \* handles of target files that are open
    tagged_header, tagged_footer, content,   \* locals, lines 48-57
    written,            \* text passed to current_file.write in the last step
    outcome,            \* what the last per-file step did
    out,                \* lines printed in this run
    run,                \* number of the run
    opened,             \* target files opened in this run
    answers,            \* answers given to the prompts in this run
    fsStart             \* the file system when this run started

vars == <<args, fs, denied, files, paths, header, footer, has_header_footer,
          yn, pc, idx, file_path, current_file, openHandles, tagged_header,
          tagged_footer, content, written, outcome, out, run, opened,
          answers, fsStart>>

MaxRuns == 2

----------------------------------------------------------------------------
(* Constants of the script *)

HEADER_START_TAG == ">>>HEADER_START<<<"
HEADER_END_TAG == ">>>HEADER_END<<<"
FOOTER_START_TAG == ">>>FOOTER_START<<<"
FOOTER_END_TAG == ">>>FOOTER_END<<<"
FILE_NAME_TAG == "{FILE_NAME}"
FOLDER_NAME_TAG == "{FOLDER_NAME}"
NO_HEADER_OR_FOOTER_MESSAGE == "No header nor footer given form either command line arguments or file."

NO_HEADER_OR_FOOTER == 0
HAS_HEADER == 1
HAS_FOOTER == 2
HAS_HEADER_AND_FOOTER == 4

EMPTY == <<>>
None == <<"None">>          \* Python's None, where a string is expected
NoHandle == <<0, 0>>        \* None, where a file object is expected
Unanswered == "None"        \* yn before the first prompt
SP == " "
NL == "\n"
SEP == "/"
Whitespace == {SP, NL}

----------------------------------------------------------------------------
(* Python string and list operations *)

\* an index of a slice, as Python clamps it for a string of length n
ClampIndex(i, n) ==
    IF i < 0 THEN (IF i + n < 0 THEN 0 ELSE i + n)
    ELSE (IF i > n THEN n ELSE i)

\* s[a:b]
PySlice(s, a, b) ==
    LET lo == ClampIndex(a, Len(s))
        hi == ClampIndex(b, Len(s))
    IN  IF lo >= hi THEN EMPTY ELSE SubSeq(s, lo + 1, hi)

\* s[a:]
PyFrom(s, a) == PySlice(s, a, Len(s))

OccursAt(s, sub, i) ==
    /\ i + Len(sub) <= Len(s)
    /\ SubSeq(s, i + 1, i + Len(sub)) = sub

\* s.find(sub): the lowest 0-based index where sub occurs, or -1
Find(s, sub) ==
    IF \E i \in 0..Len(s) : OccursAt(s, sub, i)
    THEN CHOOSE i \in 0..Len(s) :
            /\ OccursAt(s, sub, i)
            /\ \A j \in 0..(i - 1) : ~OccursAt(s, sub, j)
    ELSE -1

\* s.replace(tag, val) for a tag that is one symbol
RECURSIVE Replace(_, _, _)
Replace(s, tag, val) ==
    IF s = EMPTY THEN EMPTY
    ELSE (IF Head(s) = tag THEN val ELSE <<Head(s)>>) \o Replace(Tail(s), tag, val)

RECURSIVE LStrip(_)
LStrip(s) == IF s # EMPTY /\ Head(s) \in Whitespace THEN LStrip(Tail(s)) ELSE s

RECURSIVE RStrip(_)
RStrip(s) ==
    IF s # EMPTY /\ s[Len(s)] \in Whitespace
    THEN RStrip(SubSeq(s, 1, Len(s) - 1)) ELSE s

\* s.strip()
Strip(s) == RStrip(LStrip(s))

\* s.isspace()
IsSpace(s) == s # EMPTY /\ \A i \in 1..Len(s) : s[i] \in Whitespace

\* l.__contains__(x)
Contains(l, x) == \E i \in 1..Len(l) : l[i] = x

\* l.index(x), 1-based, for an x that l contains
ListIndex(l, x) == CHOOSE i \in 1..Len(l) : l[i] = x /\ \A j \in 1..(i - 1) : l[j] # x

\* l.remove(x): l without the first occurrence of x
ListRemove(l, x) ==
    LET k == ListIndex(l, x)
    IN  SubSeq(l, 1, k - 1) \o SubSeq(l, k + 1, Len(l))

\* if l.__contains__(x): l.remove(x)
RemoveIfPresent(l, x) == IF Contains(l, x) THEN ListRemove(l, x) ELSE l

\* the 0-based index of the last SEP of p, plus one (0 when there is none)
AfterLastSep(p) ==
    IF \E i \in 1..Len(p) : p[i] = SEP
    THEN CHOOSE i \in 1..Len(p) : p[i] = SEP /\ \A j \in (i + 1)..Len(p) : p[j] # SEP
    ELSE 0

\* os.path.basename
Basename(p) == PyFrom(p, AfterLastSep(p))

RECURSIVE RStripSep(_)
RStripSep(s) ==
    IF s # EMPTY /\ s[Len(s)] = SEP THEN RStripSep(SubSeq(s, 1, Len(s) - 1)) ELSE s

\* os.path.dirname
Dirname(p) ==
    LET head == PySlice(p, 0, AfterLastSep(p))
    IN  IF head # EMPTY /\ \E i \in 1..Len(head) : head[i] # SEP
        THEN RStripSep(head) ELSE head

\* os.path.join(a, b)
Join(a, b) ==
    IF b # EMPTY /\ Head(b) = SEP THEN b
    ELSE IF a = EMPTY \/ a[Len(a)] = SEP THEN a \o b
    ELSE a \o <<SEP>> \o b

----------------------------------------------------------------------------
(* The directory the script is run in *)

ScriptName == <<"FileHeaders", ".py">>      \* os.path.basename(sys.argv[0])
CwdName == <<"proj">>                       \* name of the current directory
SubDir == <<"sub">>                         \* its one subdirectory

\* the order in which the operating system lists the entries
TopOrder == << <<"a", ".t">>, ScriptName, <<"hdr">> >>
SubOrder == << ScriptName, <<"b", ".t">> >>

InSub(name) == SubDir \o <<SEP>> \o name

TopFiles == SelectSeq(TopOrder, LAMBDA n : n \in DOMAIN fs)
SubFiles == SelectSeq(SubOrder, LAMBDA n : InSub(n) \in DOMAIN fs)
SubDirExists == SubFiles # <<>>

\* the file a path names, for a process whose cwd is the directory
Resolve(p) ==
    IF Len(p) >= 2 /\ p[1] = "." /\ p[2] = SEP THEN SubSeq(p, 3, Len(p)) ELSE p

\* what open(p, 'r+') does
OpenOutcome(p) ==
    LET r == Resolve(p)
    IN  IF r \in DOMAIN fs
        THEN (IF r \in denied THEN "PermissionError" ELSE "ok")
        ELSE IF r = SubDir /\ SubDirExists THEN "IsADirectoryError"
        ELSE "FileNotFoundError"

\* os.walk(dir): <<path, file>> for every file below dir
WalkEntries(dir) ==
    [i \in 1..Len(TopFiles) |-> <<Join(dir, TopFiles[i]), TopFiles[i]>>]
    \o [i \in 1..Len(SubFiles) |->
            <<Join(Join(dir, SubDir), SubFiles[i]), SubFiles[i]>>]

\* os.scandir(dir): the name of every entry of dir, subdirectories included
ScandirNames(dir) == TopFiles \o (IF SubDirExists THEN <<SubDir>> ELSE <<>>)

----------------------------------------------------------------------------
(* Inputs: command lines and directories *)

Args(rec, ws, notags, det, top, bottom, hf, ext) ==
    [recursive |-> rec, whitespace |-> ws, disable_tags |-> notags,
     detect_header |-> det, top |-> top, bottom |-> bottom,
     directory |-> <<".", SEP>>, header_file |-> hf, extension |-> ext]

ExtT == <<".t">>
FileA == <<"a", ".t">>
FileB == InSub(<<"b", ".t">>)
HdrFile == <<"hdr">>

\* contents of a header/footer file
SpecBoth == <<HEADER_START_TAG, NL, "H", NL, HEADER_END_TAG, NL,
              FOOTER_START_TAG, NL, "F", NL, FOOTER_END_TAG, NL>>
SpecHeaderOnly == <<HEADER_START_TAG, NL, "H", NL, HEADER_END_TAG, NL>>
SpecFooterOnly == <<FOOTER_START_TAG, NL, "F", NL, FOOTER_END_TAG, NL>>
SpecNeither == <<"x", NL>>
SpecBlankHeader == <<HEADER_START_TAG, NL, SP, NL, HEADER_END_TAG, NL,
                     FOOTER_START_TAG, NL, "F", NL, FOOTER_END_TAG, NL>>
SpecEmptyBlocks == <<HEADER_START_TAG, NL, HEADER_END_TAG, NL,
                     FOOTER_START_TAG, NL, FOOTER_END_TAG, NL>>
SpecFiles == {SpecBoth, SpecHeaderOnly, SpecFooterOnly, SpecNeither,
              SpecBlankHeader, SpecEmptyBlocks}

\* contents of a target file
Contents ==
    { <<>>,
      <<"b">>,
      <<"H", NL, "b">>,
      <<"b", NL, "F">>,
      <<"H", NL, "b", NL, "F">>,
      <<NL, "F", "b", NL, "F">>,
      <<SP, SP, "b", SP, NL, NL>> }

World(a, withScript, scriptInSub, hdr) ==
    LET base == (FileA :> a) @@ (FileB :> <<"x">>)
        s1 == IF withScript THEN (ScriptName :> <<"code">>) ELSE <<>>
        s2 == IF scriptInSub THEN (InSub(ScriptName) :> <<"code">>) ELSE <<>>
        h == IF hdr = None THEN <<>> ELSE (HdrFile :> hdr)
    IN  base @@ s1 @@ s2 @@ h

\* how header and footer are resolved: inline text, header file, whitespace
InputsResolve ==
    { [args |-> Args(TRUE, ws, FALSE, TRUE, top, bottom, hf[1], ExtT),
       fs |-> World(<<"b">>, TRUE, FALSE, hf[2]), denied |-> {}] :
        ws \in BOOLEAN,
        top \in {EMPTY, <<SP>>, <<"H">>},
        bottom \in {EMPTY, <<SP>>, <<"F">>},
        hf \in {<<EMPTY, None>>, <<HdrFile, None>>}
                \cup {<<HdrFile, c>> : c \in SpecFiles} }

\* what the batch does to a file
InputsBatch ==
    { [args |-> Args(TRUE, FALSE, notags, det, top, bottom, EMPTY, ExtT),
       fs |-> World(a, TRUE, FALSE, None), denied |-> d] :
        notags \in BOOLEAN, det \in BOOLEAN,
        top \in {EMPTY, <<"H">>},
        bottom \in {EMPTY, <<"F">>},
        a \in Contents,
        d \in {{}, {FileA}, {FileB}} }

\* which files are listed and how the tags are filled in
InputsListing ==
    { [args |-> Args(rec, FALSE, notags, det,
                     <<"H", FILE_NAME_TAG, FOLDER_NAME_TAG>>, <<FILE_NAME_TAG>>,
                     hf, ext),
       fs |-> World(<<"b">>, scr, sis, IF hf = EMPTY THEN None ELSE SpecBoth),
       denied |-> {}] :
        rec \in BOOLEAN, notags \in BOOLEAN, det \in BOOLEAN,
        hf \in {EMPTY, HdrFile}, ext \in {EMPTY, ExtT},
        scr \in BOOLEAN, sis \in BOOLEAN }

Inputs == InputsResolve \cup InputsBatch \cup InputsListing

\* answers to a [Y/n] prompt
Answers == {"y", "Y", "", "n"}

----------------------------------------------------------------------------
(* The script before the batch, lines 95-240 *)

\* the state of the script once the command line is parsed, lines 95-102
Start(a) ==
    /\ args = a
    /\ files = <<EMPTY>>
    /\ paths = <<EMPTY>>
    /\ header = a.top
    /\ footer = a.bottom
    /\ has_header_footer = -1
    /\ yn = Unanswered
    /\ pc = "scan"
    /\ idx = 0
    /\ file_path = None
    /\ current_file = NoHandle
    /\ openHandles = {}
    /\ tagged_header = EMPTY
    /\ tagged_footer = EMPTY
    /\ content = EMPTY
    /\ written = None
    /\ outcome = "none"
    /\ out = <<>>
    /\ opened = {}
    /\ answers = <<>>

Init ==
    \E inp \in Inputs :
        /\ Start(inp.args)
        /\ fs = inp.fs
        /\ denied = inp.denied
        /\ fsStart = inp.fs
        /\ run = 1

Emit(line) == out' = Append(out, line)

\* sys.exit()
Exit == pc' = "exited"

\* lines 104-112
ScanDirectory ==
    /\ pc = "scan"
    /\ IF args.recursive
       THEN LET w == WalkEntries(args.directory)
            IN  /\ paths' = paths \o [i \in 1..Len(w) |-> w[i][1]]
                /\ files' = files \o [i \in 1..Len(w) |-> w[i][2]]
       ELSE /\ paths' = paths \o ScandirNames(args.directory)
            /\ files' = files \o ScandirNames(args.directory)
    /\ pc' = "filter"
    /\ UNCHANGED <<args, fs, denied, header, footer, has_header_footer, yn,
                   idx, file_path, current_file, openHandles, tagged_header,
                   tagged_footer, content, written, outcome, out, run,
                   opened, answers, fsStart>>

\* lines 121 and 124: name[len(name) - len(extension):] == extension
HasExtension(name, extension) ==
    PyFrom(name, Len(name) - Len(extension)) = extension

\* lines 114-130
FilterByExtension ==
    /\ pc = "filter"
    /\ LET valid_files ==
              <<EMPTY>> \o SelectSeq(files, LAMBDA f : HasExtension(f, args.extension))
           valid_paths ==
              <<EMPTY>> \o SelectSeq(paths, LAMBDA q : HasExtension(q, args.extension))
       IN  /\ files' = ListRemove(valid_files, EMPTY)
           /\ paths' = ListRemove(valid_paths, EMPTY)
    /\ pc' = "prompt1"
    /\ UNCHANGED <<args, fs, denied, header, footer, has_header_footer, yn,
                   idx, file_path, current_file, openHandles, tagged_header,
                   tagged_footer, content, written, outcome, out, run,
                   opened, answers, fsStart>>

\* str.lower() of an answer
Lower(a) == IF a = "Y" THEN "y" ELSE IF a = "N" THEN "n" ELSE a

\* lines 136 and 221 with the answer compared to the wrong word
DeclinedWrongWord(a) == Lower(a) = "no"

\* lines 136 and 221: yn.lower() != 'y' and yn != ''
Declined(a) == Lower(a) # "y" /\ a # ""

\* lines 135-137
ConfirmFiles ==
    /\ pc = "prompt1"
    /\ \E a \in Answers :
        /\ yn' = a
        /\ answers' = Append(answers, a)
        /\ IF Declined(a) THEN Exit ELSE pc' = "parse"
    /\ UNCHANGED <<args, fs, denied, files, paths, header, footer,
                   has_header_footer, idx, file_path, current_file, openHandles,
                   tagged_header, tagged_footer, content, written, outcome,
                   out, run, opened, fsStart>>

\* lines 150 and 155: the text between two markers; None when content.index
\* raises ValueError
Block(text, startTag, endTag) ==
    IF Find(text, <<startTag>>) = -1 \/ Find(text, <<endTag>>) = -1
    THEN None
    ELSE PySlice(text, Find(text, <<startTag>>) + Len(<<startTag>>) + 1,
                 Find(text, <<endTag>>) - 1)

\* lines 139-167
ParseHeaderFile ==
    /\ pc = "parse"
    /\ IF args.header_file = EMPTY
       THEN /\ pc' = "whitespace"
            /\ UNCHANGED <<header, footer, has_header_footer, out>>
       ELSE IF args.header_file \notin DOMAIN fs
       THEN /\ Emit([kind |-> "not_found", path |-> args.header_file])
            /\ Exit
            /\ UNCHANGED <<header, footer, has_header_footer>>
       ELSE LET text == fs[args.header_file]
                h == Block(text, HEADER_START_TAG, HEADER_END_TAG)
                f == Block(text, FOOTER_START_TAG, FOOTER_END_TAG)
                has1 == IF h = None THEN HAS_FOOTER ELSE has_header_footer
            IN  /\ header' = IF h = None THEN header ELSE h
                /\ footer' = IF f = None THEN footer ELSE f
                /\ IF f = None /\ has1 = HAS_FOOTER
                   THEN /\ has_header_footer' = NO_HEADER_OR_FOOTER
                        /\ Emit([kind |-> "message", text |-> NO_HEADER_OR_FOOTER_MESSAGE])
                        /\ Exit
                   ELSE LET has2 == IF f = None THEN HAS_HEADER ELSE has1
                        IN  /\ has_header_footer' =
                                  IF has2 = -1 THEN HAS_HEADER_AND_FOOTER ELSE has2
                            /\ pc' = "whitespace"
                            /\ UNCHANGED out
    /\ UNCHANGED <<args, fs, denied, files, paths, yn, idx, file_path, current_file,
                   openHandles, tagged_header, tagged_footer, content,
                   written, outcome, run, opened, answers, fsStart>>

\* lines 172-183
WhitespacePolicy ==
    /\ pc = "whitespace"
    /\ IF args.whitespace
       THEN /\ pc' = "final"
            /\ UNCHANGED <<header, footer, has_header_footer, out>>
       ELSE LET has1 == IF IsSpace(header) THEN HAS_FOOTER ELSE has_header_footer
            IN  /\ header' = IF IsSpace(header) THEN EMPTY ELSE header
                /\ footer' = IF IsSpace(footer) THEN EMPTY ELSE footer
                /\ IF IsSpace(footer) /\ has1 = HAS_FOOTER
                   THEN /\ has_header_footer' = NO_HEADER_OR_FOOTER
                        /\ Emit([kind |-> "message", text |-> NO_HEADER_OR_FOOTER_MESSAGE])
                        /\ Exit
                   ELSE /\ has_header_footer' =
                              IF IsSpace(footer) THEN HAS_HEADER ELSE has1
                        /\ pc' = "final"
                        /\ UNCHANGED out
    /\ UNCHANGED <<args, fs, denied, files, paths, yn, idx, file_path, current_file,
                   openHandles, tagged_header, tagged_footer, content,
                   written, outcome, run, opened, answers, fsStart>>

\* lines 186-200 with the calls of sys.exit() left out
FinalCheckNoExit(h, f, has) ==
    [exit |-> FALSE,
     flag |-> IF h = EMPTY /\ f = EMPTY THEN NO_HEADER_OR_FOOTER
              ELSE IF h = EMPTY THEN HAS_FOOTER
              ELSE IF f = EMPTY THEN HAS_HEADER
              ELSE IF has = -1 THEN HAS_HEADER_AND_FOOTER ELSE has]

\* lines 186-200 as a function of header, footer and the flag: whether the
\* script exits with the message, and the flag it leaves
FinalCheck(h, f, has) ==
    IF h = EMPTY /\ f = EMPTY
    THEN [exit |-> TRUE, flag |-> has]
    ELSE LET has1 == IF h = EMPTY THEN HAS_FOOTER ELSE has
         IN  IF f = EMPTY /\ has1 = HAS_FOOTER
             THEN [exit |-> TRUE, flag |-> NO_HEADER_OR_FOOTER]
             ELSE LET has2 == IF f = EMPTY THEN HAS_HEADER ELSE has1
                  IN  [exit |-> FALSE,
                       flag |-> IF has2 = -1 THEN HAS_HEADER_AND_FOOTER ELSE has2]

\* lines 186-200
CheckHeaderFooter ==
    /\ pc = "final"
    /\ LET v == FinalCheck(header, footer, has_header_footer)
       IN  /\ has_header_footer' = v.flag
           /\ IF v.exit
              THEN /\ Emit([kind |-> "message", text |-> NO_HEADER_OR_FOOTER_MESSAGE])
                   /\ Exit
              ELSE /\ pc' = "preview"
                   /\ UNCHANGED out
    /\ UNCHANGED <<args, fs, denied, files, paths, header, footer, yn, idx,
                   file_path, current_file, openHandles, tagged_header,
                   tagged_footer, content, written, outcome, run, opened,
                   answers, fsStart>>

\* lines 203-213: what the preview shows for the header and for the footer
PreviewLine(flag, h, f) ==
    IF flag = HAS_HEADER_AND_FOOTER THEN [kind |-> "preview", header |-> h, footer |-> f]
    ELSE IF flag = HAS_HEADER THEN [kind |-> "preview", header |-> h, footer |-> None]
    ELSE IF flag = HAS_FOOTER THEN [kind |-> "preview", header |-> None, footer |-> f]
    ELSE [kind |-> "preview", header |-> None, footer |-> None]

\* lines 203-218
Preview ==
    /\ pc = "preview"
    /\ Emit(PreviewLine(has_header_footer, header, footer))
    /\ header' = IF header # EMPTY THEN header \o <<NL>> ELSE header
    /\ footer' = IF footer # EMPTY THEN <<NL>> \o footer ELSE footer
    /\ pc' = "prompt2"
    /\ UNCHANGED <<args, fs, denied, files, paths, has_header_footer, yn, idx,
                   file_path, current_file, openHandles, tagged_header, tagged_footer,
                   content, written, outcome, run, opened, answers, fsStart>>

\* lines 220-222
ConfirmHeaderFooter ==
    /\ pc = "prompt2"
    /\ \E a \in Answers :
        /\ yn' = a
        /\ answers' = Append(answers, a)
        /\ IF Declined(a) THEN Exit ELSE pc' = "remove"
    /\ UNCHANGED <<args, fs, denied, files, paths, header, footer,
                   has_header_footer, idx, file_path, current_file, openHandles,
                   tagged_header, tagged_footer, content, written, outcome,
                   out, run, opened, fsStart>>

\* lines 224-228
RemoveFromFiles(l) ==
    RemoveIfPresent(RemoveIfPresent(l, ScriptName), args.header_file)

\* lines 230-240
RemoveFromPaths(l) ==
    LET p1 == RemoveIfPresent(l, ScriptName)
        p2 == RemoveIfPresent(p1, args.header_file)
        p3 == RemoveIfPresent(p2, Join(args.directory, ScriptName))
    IN  RemoveIfPresent(p3, Join(args.directory, args.header_file))

\* lines 224-242, up to the call of apply_footers_and_headers
RemoveSelfAndSpec ==
    /\ pc = "remove"
    /\ files' = RemoveFromFiles(files)
    /\ paths' = RemoveFromPaths(paths)
    /\ pc' = "loop"
    /\ idx' = 1
    /\ UNCHANGED <<args, fs, denied, header, footer, has_header_footer, yn,
                   file_path, current_file, openHandles, tagged_header, tagged_footer,
                   content, written, outcome, out, run, opened, answers,
                   fsStart>>

----------------------------------------------------------------------------
(* apply_footers_and_headers, lines 40-73 *)

\* lines 52-55: both tags filled in
TagText(text, name, folder) ==
    Replace(Replace(text, FILE_NAME_TAG, name), FOLDER_NAME_TAG, folder)

\* lines 52-53: files[paths.index(file_path)]
NameIndex(p) == ListIndex(paths, p)

\* lines 54-55: os.path.basename(os.path.dirname(file_path))
FolderOf(p) == Basename(Dirname(p))

\* line 60
AlreadyPresent(c, h, f) ==
    Find(c, h) = 0 /\ Find(c, f) = Len(c) - Len(f) /\ c # EMPTY

\* line 62
FooterOnlyPresent(c, h, f) ==
    Find(c, f) = Len(c) - Len(f) /\ c # EMPTY /\ h # EMPTY

\* line 65
HeaderOnlyPresent(c, h, f) ==
    Find(c, h) = 0 /\ f # EMPTY

\* lines 62-70: the text written when the file is not left alone
NewContent(c, h, f) ==
    IF FooterOnlyPresent(c, h, f) THEN h \o c
    ELSE IF HeaderOnlyPresent(c, h, f) THEN c \o f
    ELSE h \o c \o f

\* lines 63-64: seek(0) and write(text) on a file opened 'r+' and read to
\* its end; what the file holds once it is closed
WriteAtStart(old, text) == text \o PyFrom(old, Len(text))

\* A file object nobody refers to any more is closed when the runtime
\* collects it: at once under reference counting, later or never otherwise.
Collected == IF openHandles = {} THEN {TRUE} ELSE BOOLEAN

Handle == <<run, idx>>

\* line 43 has returned a file object and bound it to current_file
HandlesAfterOpen(gc) == (IF gc THEN {} ELSE openHandles) \cup {Handle}

InLoop == pc = "loop" /\ idx <= Len(paths)

\* lines 41-46 with the except clause missing: PermissionError ends the run
SkipFileUncaught ==
    /\ InLoop
    /\ OpenOutcome(paths[idx]) = "PermissionError"
    /\ file_path' = paths[idx]
    /\ Emit([kind |-> "PermissionError", path |-> paths[idx]])
    /\ outcome' = "none"
    /\ written' = None
    /\ pc' = "crashed"
    /\ UNCHANGED <<args, fs, denied, files, paths, header, footer,
                   has_header_footer, yn, idx, current_file, openHandles,
                   tagged_header, tagged_footer, content, run, opened,
                   answers, fsStart>>

\* lines 41-46: open raises PermissionError
SkipFile ==
    /\ InLoop
    /\ OpenOutcome(paths[idx]) = "PermissionError"
    /\ file_path' = paths[idx]
    /\ Emit([kind |-> "skipped", path |-> paths[idx]])
    /\ outcome' = "skipped"
    /\ written' = None
    /\ idx' = idx + 1
    /\ UNCHANGED <<args, fs, denied, files, paths, header, footer,
                   has_header_footer, yn, pc, current_file, openHandles,
                   tagged_header, tagged_footer, content, run, opened,
                   answers, fsStart>>

\* line 43: open raises an exception nothing catches
OpenError ==
    /\ InLoop
    /\ OpenOutcome(paths[idx]) \in {"FileNotFoundError", "IsADirectoryError"}
    /\ file_path' = paths[idx]
    /\ Emit([kind |-> OpenOutcome(paths[idx]), path |-> paths[idx]])
    /\ outcome' = "none"
    /\ written' = None
    /\ pc' = "crashed"
    /\ UNCHANGED <<args, fs, denied, files, paths, header, footer,
                   has_header_footer, yn, idx, current_file, openHandles,
                   tagged_header, tagged_footer, content, run, opened,
                   answers, fsStart>>

\* line 52: files has no element at paths.index(file_path)
TagIndexError ==
    /\ InLoop
    /\ OpenOutcome(paths[idx]) = "ok"
    /\ ~args.disable_tags
    /\ NameIndex(paths[idx]) > Len(files)
    /\ \E gc \in Collected : openHandles' = HandlesAfterOpen(gc)
    /\ file_path' = paths[idx]
    /\ current_file' = Handle
    /\ opened' = opened \cup {Resolve(paths[idx])}
    /\ tagged_header' = header
    /\ tagged_footer' = footer
    /\ Emit([kind |-> "IndexError", path |-> paths[idx]])
    /\ outcome' = "none"
    /\ written' = None
    /\ pc' = "crashed"
    /\ UNCHANGED <<args, fs, denied, files, paths, header, footer,
                   has_header_footer, yn, idx, content, run, answers, fsStart>>

\* lines 41-73 for a file that opens
ProcessFile ==
    /\ InLoop
    /\ OpenOutcome(paths[idx]) = "ok"
    /\ args.disable_tags \/ NameIndex(paths[idx]) <= Len(files)
    /\ \E gc \in Collected :
        LET p == paths[idx]
            r == Resolve(p)
            th == IF args.disable_tags THEN header
                  ELSE TagText(header, files[NameIndex(p)], FolderOf(p))
            tf == IF args.disable_tags THEN footer
                  ELSE TagText(footer, files[NameIndex(p)], FolderOf(p))
            c == Strip(fs[r])
        IN  /\ file_path' = p
            /\ current_file' = Handle
            /\ opened' = opened \cup {r}
            /\ tagged_header' = th
            /\ tagged_footer' = tf
            /\ content' = c
            /\ IF args.detect_header /\ AlreadyPresent(c, th, tf)
               THEN /\ outcome' = "unchanged"
                    /\ written' = None
                    /\ openHandles' = HandlesAfterOpen(gc)
                    /\ UNCHANGED <<fs, out>>
               ELSE IF args.detect_header
               THEN /\ outcome' = "modified"
                    /\ written' = NewContent(c, th, tf)
                    /\ fs' = [fs EXCEPT ![r] = WriteAtStart(fs[r], NewContent(c, th, tf))]
                    /\ Emit([kind |-> "added", path |-> p])
                    /\ openHandles' = HandlesAfterOpen(gc) \ {Handle}
               ELSE /\ outcome' = "not_written"
                    /\ written' = None
                    /\ Emit([kind |-> "added", path |-> p])
                    /\ openHandles' = HandlesAfterOpen(gc) \ {Handle}
                    /\ UNCHANGED fs
    /\ idx' = idx + 1
    /\ UNCHANGED <<args, denied, files, paths, header, footer,
                   has_header_footer, yn, pc, run, answers, fsStart>>

\* the for loop of line 41 is exhausted and the function returns
FinishBatch ==
    /\ pc = "loop"
    /\ idx > Len(paths)
    /\ pc' = "done"
    /\ current_file' = NoHandle
    /\ \E gc \in Collected : openHandles' = IF gc THEN {} ELSE openHandles
    /\ UNCHANGED <<args, fs, denied, files, paths, header, footer,
                   has_header_footer, yn, idx, file_path, tagged_header,
                   tagged_footer, content, written, outcome, out, run,
                   opened, answers, fsStart>>

\* the user runs the script again, with the same command line
Rerun ==
    /\ pc = "done"
    /\ run < MaxRuns
    /\ run' = run + 1
    /\ fsStart' = fs
    /\ files' = <<EMPTY>>
    /\ paths' = <<EMPTY>>
    /\ header' = args.top
    /\ footer' = args.bottom
    /\ has_header_footer' = -1
    /\ yn' = Unanswered
    /\ pc' = "scan"
    /\ idx' = 0
    /\ file_path' = None
    /\ current_file' = NoHandle
    /\ openHandles' = {}
    /\ tagged_header' = EMPTY
    /\ tagged_footer' = EMPTY
    /\ content' = EMPTY
    /\ written' = None
    /\ outcome' = "none"
    /\ out' = <<>>
    /\ opened' = {}
    /\ answers' = <<>>
    /\ UNCHANGED <<args, fs, denied>>

Next ==
    \/ ScanDirectory
    \/ FilterByExtension
    \/ ConfirmFiles
    \/ ParseHeaderFile
    \/ WhitespacePolicy
    \/ CheckHeaderFooter
    \/ Preview
    \/ ConfirmHeaderFooter
    \/ RemoveSelfAndSpec
    \/ SkipFile
    \/ OpenError
    \/ TagIndexError
    \/ ProcessFile
    \/ FinishBatch
    \/ Rerun

Spec == Init /\ [][Next]_vars

----------------------------------------------------------------------------
(* Properties *)

StartsWith(c, h) == Len(h) <= Len(c) /\ SubSeq(c, 1, Len(h)) = h
EndsWith(c, f) == Len(f) <= Len(c) /\ SubSeq(c, Len(c) - Len(f) + 1, Len(c)) = f

\* the last per-file step opened its file and ran to the end of the loop body
Processed == pc \in {"loop", "done"} /\ outcome \in {"unchanged", "modified", "not_written"}

LastLine == IF out = <<>> THEN [kind |-> "nothing"] ELSE out[Len(out)]
NoHeaderLine == [kind |-> "message", text |-> NO_HEADER_OR_FOOTER_MESSAGE]

\* C1: with detection enabled, a second run over the files the first run
\* left behind changes no file.
C1_Idempotent ==
    (run >= 2 /\ pc = "done" /\ args.detect_header) => fs = fsStart

\* C2: with detection disabled, a file that opens is rewritten to tagged
\* header + trimmed content + tagged footer.
C2_DisabledRewrites ==
    (Processed /\ ~args.detect_header) =>
        fs[Resolve(file_path)] = tagged_header \o content \o tagged_footer

\* the result the four-way classification of the claim asks for; None when
\* the file is to be left unchanged
Classified(c, h, f) ==
    IF c # EMPTY /\ (h = EMPTY \/ StartsWith(c, h)) /\ (f = EMPTY \/ EndsWith(c, f))
    THEN None
    ELSE IF EndsWith(c, f) /\ f # EMPTY /\ h # EMPTY THEN h \o c
    ELSE IF StartsWith(c, h) /\ h # EMPTY /\ f # EMPTY THEN c \o f
    ELSE h \o c \o f

\* C3: with detection enabled the file is left unchanged or the text written
\* is h + c, c + f or h + c + f, as the classification of trimmed content c,
\* tagged header h and tagged footer f says, in its order of precedence.
C3_Classification ==
    (Processed /\ args.detect_header) =>
        written = Classified(content, tagged_header, tagged_footer)

Resolving == {"scan", "filter", "prompt1", "parse", "whitespace", "final"}

\* C4: a run whose header and footer are both empty once the header file is
\* parsed and the whitespace policy applied has exited with the
\* no-header-or-footer message, with no target file opened or written.
C4_EmptyRejected ==
    (header = EMPTY /\ footer = EMPTY /\ pc \notin Resolving) =>
        /\ pc = "exited"
        /\ opened = {}
        /\ fs = fsStart
        /\ (Len(answers) = 1 /\ answers[1] \in {"y", "Y", ""}
            /\ (args.header_file = EMPTY \/ args.header_file \in DOMAIN fs))
              => LastLine = NoHeaderLine

C4_Witness ==
    /\ pc = "exited"
    /\ header = EMPTY /\ footer = EMPTY
    /\ LastLine = NoHeaderLine
    /\ args.top # EMPTY
    /\ opened = {}

Accepting == {"y", "Y", ""}

\* C5: a target file is opened or written only after the user accepted the
\* file-list prompt and then the preview prompt; a declined prompt ends the
\* run with every file as it was.
C5_ConfirmedFirst ==
    /\ (opened # {} \/ fs # fsStart \/ pc \in {"remove", "loop", "done", "crashed"})
          => (Len(answers) = 2 /\ answers[1] \in Accepting /\ answers[2] \in Accepting)
    /\ (\E i \in 1..Len(answers) : answers[i] \notin Accepting)
          => (pc = "exited" /\ opened = {} /\ fs = fsStart)
    /\ (Len(answers) = 0) = (pc \in {"scan", "filter", "prompt1"})
    /\ (Len(answers) = 2) => pc \notin {"parse", "whitespace", "final", "preview", "prompt2"}

C5_Witness ==
    /\ pc = "done"
    /\ fs # fsStart
    /\ answers = <<"", "Y">>

Visited == 1..(IF idx - 1 < Len(paths) THEN idx - 1 ELSE Len(paths))

SkipLine(p) == [kind |-> "skipped", path |-> p]

\* C6: a file that cannot be opened for lack of permission is reported and
\* left as it was, and the batch goes on: it never ends the run, and every
\* file before the position of the loop was either reported or opened.
C6_SkipContinues ==
    /\ pc = "crashed" => OpenOutcome(file_path) # "PermissionError"
    /\ pc \in {"loop", "done"} =>
          \A i \in Visited :
              IF OpenOutcome(paths[i]) = "PermissionError"
              THEN /\ fs[Resolve(paths[i])] = fsStart[Resolve(paths[i])]
                   /\ Resolve(paths[i]) \notin opened
                   /\ \E j \in 1..Len(out) : out[j] = SkipLine(paths[i])
              ELSE Resolve(paths[i]) \in opened

C6_Witness ==
    /\ pc = "done"
    /\ denied = {FileA}
    /\ \E j \in 1..Len(out) : out[j].kind = "skipped"
    /\ FileB \in opened
    /\ fs[FileB] # fsStart[FileB]
    /\ fs[FileA] = fsStart[FileA]

\* C7: at most one target file handle is open at any time, and none is open
\* when the loop goes on to the next file or when the batch has ended.
C7_HandlesClosed ==
    /\ Cardinality(openHandles) <= 1
    /\ pc \in {"loop", "done"} => openHandles = {}

\* the name of the directory that holds the file a path names
ContainingFolder(p) ==
    LET d == Dirname(Resolve(p))
    IN  IF d = EMPTY THEN CwdName ELSE Basename(d)

\* C8: the name list and the path list are aligned when the batch runs, and
\* with tags enabled a processed file's header and footer carry that file's
\* own base name and the base name of the directory that holds it.
C8_OwnNameInTags ==
    /\ pc \in {"loop", "done", "crashed"} =>
          /\ Len(files) = Len(paths)
          /\ \A i \in 1..Len(paths) : files[i] = Basename(paths[i])
    /\ (Processed /\ ~args.disable_tags) =>
          /\ tagged_header =
                TagText(header, Basename(file_path), ContainingFolder(file_path))
          /\ tagged_footer =
                TagText(footer, Basename(file_path), ContainingFolder(file_path))

\* C9: at the preview the flag says which of header and footer is non-empty.
C9_FlagAgrees ==
    pc = "preview" =>
        /\ (has_header_footer = HAS_HEADER_AND_FOOTER) = (header # EMPTY /\ footer # EMPTY)
        /\ (has_header_footer = HAS_HEADER) = (header # EMPTY /\ footer = EMPTY)
        /\ (has_header_footer = HAS_FOOTER) = (header = EMPTY /\ footer # EMPTY)

\* C10: a file that was modified holds exactly the text that was written.
C10_CompleteOverwrite ==
    (Processed /\ outcome = "modified") => fs[Resolve(file_path)] = written

====
